---- MODULE Spec2Model ----
(***************************************************************************)
(* Model of simulate_assets (src/asset_simulation.py, lines 8-65): the     *)
(* year-by-year projection of an investment balance with monthly           *)
(* contributions, monthly compounding and scheduled withdrawals.           *)
(*                                                                         *)
(* Numbers.  Python computes on floats; the model computes on exact        *)
(* rationals <<n, d>> (d > 0, lowest terms).  Rounding error of binary     *)
(* floating point is therefore outside the model: every equality below is  *)
(* an equality of real numbers.  The twelfth root of line 39 is computed   *)
(* by search, so annual growth factors are drawn from numbers that have a  *)
(* rational twelfth root (0, 1/4096, 1, 4096).  TLC integers are 32 bits   *)
(* wide, which is why growth by 4096 a year is only run over short         *)
(* horizons (see Representable).                                           *)
(***************************************************************************)
EXTENDS Integers, Sequences, FiniteSets

VARIABLES
    params,               \* the eight arguments of the call (never assigned)
    pc,                   \* position in the body of simulate_assets
    years, ages,          \* lines 20-21
    assets,               \* line 24
    monthly_withdrawals,  \* line 25
    yi,                   \* position of the for loop of line 28 in years
    year,                 \* loop variable of line 28
    prev_asset,           \* line 29
    current_asset,        \* line 30
    month,                \* number of iterations of line 33 completed
    monthly_return,       \* line 39
    monthly_withdrawal,   \* lines 44, 47
    results               \* line 58

vars == <<params, pc, years, ages, assets, monthly_withdrawals, yi, year,
          prev_asset, current_asset, month, monthly_return,
          monthly_withdrawal, results>>

-----------------------------------------------------------------------------
(* Exact rational arithmetic standing for Python's numeric operators.      *)

Abs(n) == IF n < 0 THEN -n ELSE n

RECURSIVE GCD(_, _)
GCD(a, b) == IF b = 0 THEN a ELSE GCD(b, a % b)

Norm(n, d) ==
    LET g == GCD(Abs(n), d)
    IN  IF n = 0 THEN <<0, 1>> ELSE <<n \div g, d \div g>>

Rat(n) == <<n, 1>>
Zero == <<0, 1>>
One == <<1, 1>>

RAdd(a, b) ==
    LET g == GCD(a[2], b[2])
        l == (a[2] \div g) * b[2]
    IN  Norm(a[1] * (l \div a[2]) + b[1] * (l \div b[2]), l)

RNeg(a) == <<-a[1], a[2]>>

RSub(a, b) == RAdd(a, RNeg(b))

RMul(a, b) ==
    LET g1 == GCD(Abs(a[1]), b[2])
        g2 == GCD(Abs(b[1]), a[2])
    IN  IF a[1] = 0 \/ b[1] = 0 THEN Zero
        ELSE <<(a[1] \div g1) * (b[1] \div g2), (a[2] \div g2) * (b[2] \div g1)>>

RDivInt(a, k) == RMul(a, <<1, k>>)

RLess(a, b) == RSub(a, b)[1] < 0

RLeq(a, b) == RSub(a, b)[1] <= 0

RECURSIVE RPow(_, _)
RPow(a, k) == IF k = 0 THEN One ELSE RMul(a, RPow(a, k - 1))

-----------------------------------------------------------------------------
(* Program constants.                                                      *)

TerminalAge == 100
MonthsPerYear == 12
DefaultStartYear == 2025

(* Bounds of the model.                                                    *)

MaxYears == 3
MaxBase == 2

-----------------------------------------------------------------------------
(* Python built-ins used by the function.                                  *)

\* list(range(a, b))
Range(a, b) == [i \in 1..(IF b > a THEN b - a ELSE 0) |-> a + i - 1]

\* max(0, x): x when x > 0, else the first argument
PyMax0(x) == IF RLess(Zero, x) THEN x ELSE Zero

\* x ** (1/12) for x >= 0 with a rational twelfth root
RootCandidates ==
    {Norm(a, b) : a \in 0..MaxBase, b \in 1..MaxBase}

Root12(x) == CHOOSE r \in RootCandidates : RPow(r, MonthsPerYear) = x

\* pd.DataFrame(dict of columns): columns of unequal length raise ValueError
SameLength(cols) == \A i, j \in 1..Len(cols) : Len(cols[i]) = Len(cols[j])

-----------------------------------------------------------------------------
(* The statements of simulate_assets as operators.                         *)

EndYear(p) == p.start_year + (TerminalAge - p.start_age)

Years(p) == Range(p.start_year, EndYear(p) + 1)

\* mutant: ages stop at 99
AgesShort(p) == Range(p.start_age, TerminalAge)

Ages(p) == Range(p.start_age, TerminalAge + 1)

\* mutant: the last contribution year is excluded
ContributionStrict(p, y, cur) ==
    IF y < p.end_investment_year THEN RAdd(cur, p.monthly_investment) ELSE cur

\* mutant: contributions never end
ContributionAlways(p, y, cur) == RAdd(cur, p.monthly_investment)

\* mutant: contributions end with the wrong year parameter
ContributionUntilWithdrawal(p, y, cur) ==
    IF y <= p.start_withdrawal_year
    THEN RAdd(cur, p.monthly_investment) ELSE cur

Contribution(p, y, cur) ==
    IF y <= p.end_investment_year THEN RAdd(cur, p.monthly_investment) ELSE cur

\* mutant: the twelfth root is taken for the rate, not for the factor
MonthlyReturnNoMinus(p) == Root12(RAdd(One, p.annual_return))

MonthlyReturn(p) == RSub(Root12(RAdd(One, p.annual_return)), One)

Growth(p, cur) == RMul(cur, RAdd(One, MonthlyReturn(p)))

WithdrawalAmount(p, y, prev) ==
    IF y >= p.start_withdrawal_year
    THEN RDivInt(RMul(prev, p.withdrawal_rate), MonthsPerYear)
    ELSE Zero

\* mutant: the amount is re-derived from the balance inside the year
WithdrawalFromCurrent(p, y, prev, cur) ==
    IF y >= p.start_withdrawal_year
    THEN RSub(cur, RDivInt(RMul(cur, p.withdrawal_rate), MonthsPerYear))
    ELSE cur

Withdrawal(p, y, prev, cur) ==
    IF y >= p.start_withdrawal_year
    THEN RSub(cur, WithdrawalAmount(p, y, prev))
    ELSE cur

\* mutant: the withdrawal is taken before the month's growth
MonthBodyWithdrawFirst(p, y, prev, cur) ==
    Growth(p, Withdrawal(p, y, prev, Contribution(p, y, cur)))

MonthBody(p, y, prev, cur) ==
    Withdrawal(p, y, prev, Growth(p, Contribution(p, y, cur)))

\* mutant: no floor at 0
ClosingBalanceNoFloor(cur) == cur

ClosingBalance(cur) == PyMax0(cur)

\* mutant: the annual amount is recorded
RecordedWithdrawalAnnual(p, y, prev) ==
    IF y >= p.start_withdrawal_year
    THEN RMul(prev, p.withdrawal_rate)
    ELSE Zero

RecordedWithdrawal(p, y, prev) ==
    IF y >= p.start_withdrawal_year
    THEN RDivInt(RMul(prev, p.withdrawal_rate), MonthsPerYear)
    ELSE Zero

DataFrame(ys, as, bs, ws) ==
    [year |-> ys, age |-> as, balance |-> bs, withdrawal |-> ws]

-----------------------------------------------------------------------------
(* The call as a pure function: the series it returns, or "ValueError".    *)

\* the running balance after each month of year y, from run = <<prev>>
RECURSIVE Months(_, _, _, _)
Months(p, y, prev, run) ==
    IF Len(run) > MonthsPerYear THEN run
    ELSE Months(p, y, prev,
                Append(run, MonthBody(p, y, prev, run[Len(run)])))

\* one record is appended for each year of ys[1:]
RECURSIVE Loop(_, _, _, _)
Loop(p, ys, bs, ws) ==
    IF Len(bs) >= Len(ys) THEN <<bs, ws>>
    ELSE LET y    == ys[Len(bs) + 1]
             prev == bs[Len(bs)]
             run  == Months(p, y, prev, <<prev>>)
         IN  Loop(p, ys,
                  Append(bs, ClosingBalance(run[Len(run)])),
                  Append(ws, RecordedWithdrawal(p, y, prev)))

simulate_assets(p) ==
    LET ys  == Years(p)
        as  == Ages(p)
        out == Loop(p, ys, <<p.initial_assets>>, <<Zero>>)
    IN  IF SameLength(<<ys, as, out[1], out[2]>>)
        THEN DataFrame(ys, as, out[1], out[2])
        ELSE "ValueError"

-----------------------------------------------------------------------------
(* Arguments of the call.                                                  *)

Unset == <<>>

StartAges == (TerminalAge - MaxYears)..(TerminalAge + 1)

YearValues ==
    (DefaultStartYear - 1)..(DefaultStartYear + MaxYears + 1)

InitialAssets == {Rat(0), Rat(12)}

AnnualReturns == {Rat(-1), <<-4095, 4096>>, Rat(0), Rat(4095)}

MonthlyInvestments == {Rat(0), Rat(1)}

WithdrawalRates == {Rat(0), <<1, 2>>, Rat(2)}

Horizon(p) == TerminalAge - p.start_age

NoFlows(p) == p.monthly_investment = Zero /\ p.withdrawal_rate = Zero

\* Runs whose numerators and denominators stay below 2^31.
Representable(p) ==
    \/ p.annual_return \in {Rat(-1), Rat(0)}
    \/ Horizon(p) <= 1
    \/ Horizon(p) <= 2 /\ (RLess(p.annual_return, Zero) \/ NoFlows(p))

Params ==
    {p \in [start_year            : {DefaultStartYear},
            start_age             : StartAges,
            initial_assets        : InitialAssets,
            annual_return         : AnnualReturns,
            monthly_investment    : MonthlyInvestments,
            end_investment_year   : YearValues,
            start_withdrawal_year : YearValues,
            withdrawal_rate       : WithdrawalRates] : Representable(p)}

-----------------------------------------------------------------------------
(* The call as a state machine.                                            *)

Init ==
    /\ params \in Params
    /\ pc = "setup"
    /\ years = Unset /\ ages = Unset
    /\ assets = Unset /\ monthly_withdrawals = Unset
    /\ yi = 0 /\ year = Unset
    /\ prev_asset = Unset /\ current_asset = Unset
    /\ month = 0
    /\ monthly_return = Unset /\ monthly_withdrawal = Unset
    /\ results = Unset

\* lines 19-25
Setup ==
    /\ pc = "setup"
    /\ years' = Years(params)
    /\ ages' = Ages(params)
    /\ assets' = <<params.initial_assets>>
    /\ monthly_withdrawals' = <<Zero>>
    /\ yi' = 2
    /\ pc' = "loop"
    /\ UNCHANGED <<params, year, prev_asset, current_asset, month,
                   monthly_return, monthly_withdrawal, results>>

\* lines 28-30: the next year of years[1:]
YearBegin ==
    /\ pc = "loop"
    /\ yi <= Len(years)
    /\ year' = years[yi]
    /\ prev_asset' = assets[Len(assets)]
    /\ current_asset' = assets[Len(assets)]
    /\ month' = 0
    /\ pc' = "month"
    /\ UNCHANGED <<params, years, ages, assets, monthly_withdrawals, yi,
                   monthly_return, monthly_withdrawal, results>>

\* lines 33-47: one iteration of the month loop
MonthStep ==
    /\ pc = "month"
    /\ month < MonthsPerYear
    /\ monthly_return' = MonthlyReturn(params)
    /\ current_asset' = MonthBody(params, year, prev_asset, current_asset)
    /\ monthly_withdrawal' = WithdrawalAmount(params, year, prev_asset)
    /\ month' = month + 1
    /\ UNCHANGED <<params, pc, years, ages, assets, monthly_withdrawals, yi,
                   year, prev_asset, results>>

\* lines 50-55: record the year
YearEnd ==
    /\ pc = "month"
    /\ month = MonthsPerYear
    /\ assets' = Append(assets, ClosingBalance(current_asset))
    /\ monthly_withdrawals' =
           Append(monthly_withdrawals,
                  RecordedWithdrawal(params, year, prev_asset))
    /\ yi' = yi + 1
    /\ pc' = "loop"
    /\ UNCHANGED <<params, years, ages, year, prev_asset, current_asset,
                   month, monthly_return, monthly_withdrawal, results>>

\* lines 58-65: the columns have one length and the frame is returned
ReturnResults ==
    /\ pc = "loop"
    /\ yi > Len(years)
    /\ SameLength(<<years, ages, assets, monthly_withdrawals>>)
    /\ results' = DataFrame(years, ages, assets, monthly_withdrawals)
    /\ pc' = "done"
    /\ UNCHANGED <<params, years, ages, assets, monthly_withdrawals, yi,
                   year, prev_asset, current_asset, month, monthly_return,
                   monthly_withdrawal>>

\* lines 58-63: pd.DataFrame raises ValueError on columns of unequal length
RaiseValueError ==
    /\ pc = "loop"
    /\ yi > Len(years)
    /\ ~SameLength(<<years, ages, assets, monthly_withdrawals>>)
    /\ pc' = "error"
    /\ UNCHANGED <<params, years, ages, assets, monthly_withdrawals, yi,
                   year, prev_asset, current_asset, month, monthly_return,
                   monthly_withdrawal, results>>

Next ==
    \/ Setup
    \/ YearBegin
    \/ MonthStep
    \/ YearEnd
    \/ ReturnResults
    \/ RaiseValueError

Spec == Init /\ [][Next]_vars

-----------------------------------------------------------------------------
(* The worked example of the specification: start_year 2025, initial       *)
(* assets 10,000,000, no contributions, withdrawals of 4% a year from       *)
(* 2025.  The example's annual_return 0.04 has an irrational twelfth root   *)
(* and its horizon of 40 years exceeds 32-bit numerators, so the example    *)
(* is run with the representable returns 0 and -1 and the start ages of     *)
(* StartAges; the seed record does not depend on either.                    *)

ExampleInitialAssets == 10000000

ExampleRate == <<1, 25>>

ExampleParams ==
    [start_year            : {DefaultStartYear},
     start_age             : StartAges,
     initial_assets        : {Rat(ExampleInitialAssets)},
     annual_return         : {Rat(-1), Rat(0)},
     monthly_investment    : {Rat(0)},
     end_investment_year   : {DefaultStartYear - 1},
     start_withdrawal_year : {DefaultStartYear},
     withdrawal_rate       : {ExampleRate}]

InitExample ==
    /\ params \in ExampleParams
    /\ pc = "setup"
    /\ years = Unset /\ ages = Unset
    /\ assets = Unset /\ monthly_withdrawals = Unset
    /\ yi = 0 /\ year = Unset
    /\ prev_asset = Unset /\ current_asset = Unset
    /\ month = 0
    /\ monthly_return = Unset /\ monthly_withdrawal = Unset
    /\ results = Unset

SpecExample == InitExample /\ [][Next]_vars

-----------------------------------------------------------------------------
(* Vocabulary of the properties.                                           *)

ValidParams(p) ==
    /\ p.start_age \in 0..(TerminalAge - 1)
    /\ RLeq(Zero, p.initial_assets)
    /\ RLeq(Zero, p.monthly_investment)
    /\ RLeq(Zero, p.withdrawal_rate)
    /\ RLeq(Rat(-1), p.annual_return)

Positive(x) == RLess(Zero, x)

Negative(x) == RLess(x, Zero)

\* the records written so far: the balances that have a year of the series
Written == {i \in 1..Len(assets) : i <= Len(years)}

\* 1 + g + ... + g^(k-1)
RECURSIVE GeometricSum(_, _)
GeometricSum(g, k) ==
    IF k = 0 THEN Zero ELSE RAdd(RPow(g, k - 1), GeometricSum(g, k - 1))

\* a step of the month loop / the step that records a year
IsMonthStep == pc = "month" /\ month' = month + 1

IsYearEnd == pc = "month" /\ pc' = "loop"

-----------------------------------------------------------------------------
(* Properties.                                                             *)

C1Step ==
    LET last  == Len(assets)
        W     == IF year >= params.start_withdrawal_year
                 THEN RDivInt(RMul(assets[last], params.withdrawal_rate), 12)
                 ELSE Zero
        grown == Growth(params, Contribution(params, year, current_asset))
    IN  /\ IsMonthStep =>
            /\ year > params.start_year
            /\ years[last] = year - 1
            /\ current_asset' = RSub(grown, W)
        /\ IsYearEnd =>
            /\ years[last + 1] = year
            /\ monthly_withdrawals' = Append(monthly_withdrawals, W)

\* C1: for every year Y after start_year, the amount subtracted in each
\* month of Y and the monthly withdrawal recorded for Y are both
\* (balance recorded for Y-1) * withdrawal_rate / 12 when
\* Y >= start_withdrawal_year, and 0 (nothing subtracted) otherwise; the
\* amount never depends on the balance inside the year.
C1_WithdrawalFromPriorBalance == [][C1Step]_vars

\* a finished call with a year before and a year within the withdrawal
\* phase, the latter with a positive withdrawal
C1_Witness ==
    /\ pc = "done"
    /\ \E i \in 2..Len(years) :
           /\ years[i] >= params.start_withdrawal_year
           /\ Positive(monthly_withdrawals[i])
    /\ \E j \in 2..Len(years) :
           /\ years[j] < params.start_withdrawal_year
           /\ monthly_withdrawals[j] = Zero
           /\ Positive(assets[j])

\* C2: for valid parameters every recorded balance is >= 0, also in a
\* year whose twelve withdrawals exceed the funds available.
C2_BalanceNonNegative ==
    ValidParams(params) =>
        /\ \A i \in Written : ~Negative(assets[i])
        /\ pc = "done" => results.balance = assets

\* a year has just been closed at 0 from a negative running balance
C2_Witness ==
    /\ pc = "loop"
    /\ ValidParams(params)
    /\ Len(assets) >= 2
    /\ Negative(current_asset)
    /\ assets[Len(assets)] = Zero

\* C3: for valid parameters the call returns 101 - start_age records,
\* the first with year start_year and age start_age, each next one with
\* year and age one greater, so age = start_age + (year - start_year)
\* throughout and the last age is 100.
C3_SeriesShape ==
    ValidParams(params) =>
        /\ pc # "error"
        /\ pc = "done" =>
            LET n == 101 - params.start_age
            IN  /\ Len(results.year) = n /\ Len(results.age) = n
                /\ Len(results.balance) = n /\ Len(results.withdrawal) = n
                /\ results.year[1] = params.start_year
                /\ results.age[1] = params.start_age
                /\ \A i \in 2..n :
                       /\ results.year[i] = results.year[i - 1] + 1
                       /\ results.age[i] = results.age[i - 1] + 1
                /\ \A i \in 1..n :
                       results.age[i] =
                           params.start_age
                               + (results.year[i] - params.start_year)
                /\ results.age[n] = 100

\* a call with valid parameters has returned a series of several years
C3_Witness ==
    /\ pc = "done"
    /\ ValidParams(params)
    /\ Len(results.year) >= 3

IsExample ==
    /\ params.start_year = 2025
    /\ params.initial_assets = Rat(ExampleInitialAssets)
    /\ params.monthly_investment = Zero
    /\ params.end_investment_year = 2024
    /\ params.start_withdrawal_year = 2025
    /\ params.withdrawal_rate = ExampleRate

\* the example's monthly withdrawal 10,000,000 * 0.04 / 12
ExampleWithdrawal == RDivInt(RMul(Rat(ExampleInitialAssets), ExampleRate), 12)

\* the initial balance grown for one year net of twelve withdrawals
ExampleYearEnd ==
    LET g == Root12(RAdd(One, params.annual_return))
    IN  PyMax0(RSub(RMul(Rat(ExampleInitialAssets), RPow(g, 12)),
                    RMul(ExampleWithdrawal, GeometricSum(g, 12))))

\* the record of the returned series for calendar year y, if any
RecordsOf(y) == {i \in 1..Len(results.year) : results.year[i] = y}

\* C4 as stated: in the example the record for 2025 shows the monthly
\* withdrawal 10,000,000*0.04/12 and the balance grown for one year net
\* of twelve such withdrawals.
C4_Original ==
    (pc = "done" /\ IsExample) =>
        \A i \in RecordsOf(2025) :
            /\ results.withdrawal[i] = ExampleWithdrawal
            /\ results.balance[i] = ExampleYearEnd

\* C4 (amended): in the example the record for 2025 is the seed record,
\* balance 10,000,000 and monthly withdrawal 0; the record for 2026 is
\* the one that shows the monthly withdrawal 10,000,000*0.04/12 and the
\* balance grown for one year net of twelve such withdrawals.
C4_ExampleFirstWithdrawalIn2026 ==
    (pc = "done" /\ IsExample) =>
        /\ \A i \in RecordsOf(2025) :
               /\ results.withdrawal[i] = Zero
               /\ results.balance[i] = Rat(ExampleInitialAssets)
        /\ \A i \in RecordsOf(2026) :
               /\ results.withdrawal[i] = ExampleWithdrawal
               /\ results.balance[i] = ExampleYearEnd

\* the example has returned records for 2025 and 2026, the latter with a
\* positive balance
C4_Witness ==
    /\ pc = "done"
    /\ IsExample
    /\ RecordsOf(2025) # {}
    /\ \E i \in RecordsOf(2026) : Positive(results.balance[i])

\* C5: with monthly_investment = 0 and withdrawal_rate = 0 every recorded
\* balance is initial_assets * (1 + annual_return)^(year - start_year),
\* whatever end_investment_year and start_withdrawal_year are.
C5_PureCompounding ==
    NoFlows(params) =>
        \A i \in Written :
            assets[i] =
                RMul(params.initial_assets,
                     RPow(RAdd(One, params.annual_return),
                          years[i] - params.start_year))

\* two years of growth at a return other than 0 and -1, with both year
\* parameters inside the horizon
C5_Witness ==
    /\ pc = "done"
    /\ NoFlows(params)
    /\ params.annual_return \notin {Rat(0), Rat(-1)}
    /\ Positive(params.initial_assets)
    /\ Len(assets) >= 3
    /\ params.end_investment_year > params.start_year
    /\ params.start_withdrawal_year <= params.start_year + 1

\* C6: with annual_return = 0 and withdrawal_rate = 0 the balance recorded
\* for year start_year + N, when that year is within the horizon and not
\* after end_investment_year, is initial_assets + 12 * N * monthly_investment.
C6_ContributionOnly ==
    (params.annual_return = Zero /\ params.withdrawal_rate = Zero) =>
        \A i \in Written :
            years[i] <= params.end_investment_year =>
                assets[i] =
                    RAdd(params.initial_assets,
                         RMul(Rat(12 * (years[i] - params.start_year)),
                              params.monthly_investment))

\* contributions were made up to the last contribution year, which lies
\* inside the horizon
C6_Witness ==
    /\ pc = "done"
    /\ params.annual_return = Zero /\ params.withdrawal_rate = Zero
    /\ Positive(params.monthly_investment)
    /\ \E i \in 3..Len(years) : years[i] = params.end_investment_year
    /\ years[Len(years)] > params.end_investment_year

\* C7: with end_investment_year < start_year and start_withdrawal_year
\* after the terminal year, the series returned equals, record for
\* record, the one returned with monthly_investment = 0 and
\* withdrawal_rate = 0 and the other parameters unchanged.
C7_NoFlowEquivalence ==
    (/\ pc = "done"
     /\ params.end_investment_year < params.start_year
     /\ params.start_withdrawal_year > EndYear(params)) =>
        /\ results =
               simulate_assets([params EXCEPT !.monthly_investment = Zero,
                                              !.withdrawal_rate = Zero])
        /\ \A i \in 1..Len(results.withdrawal) : results.withdrawal[i] = Zero

\* such a call with a positive contribution and a positive rate has
\* returned several years of a positive balance
C7_Witness ==
    /\ pc = "done"
    /\ params.end_investment_year < params.start_year
    /\ params.start_withdrawal_year > EndYear(params)
    /\ Positive(params.monthly_investment)
    /\ Positive(params.withdrawal_rate)
    /\ Len(results.balance) >= 3
    /\ Positive(results.balance[Len(results.balance)])

\* C8 as stated: the call never raises, whatever the numeric parameters
\* (start_age > 100 included), and completes with four columns of one
\* length.
C8_NeverRaises ==
    /\ pc # "error"
    /\ pc = "done" =>
           /\ Len(results.year) = Len(results.age)
           /\ Len(results.year) = Len(results.balance)
           /\ Len(results.year) = Len(results.withdrawal)

C9Step ==
    LET c == IF year <= params.end_investment_year
             THEN params.monthly_investment ELSE Zero
        w == IF year >= params.start_withdrawal_year
             THEN RDivInt(RMul(prev_asset, params.withdrawal_rate), 12)
             ELSE Zero
        g == Root12(RAdd(One, params.annual_return))
    IN  /\ IsMonthStep =>
            /\ month < 12
            /\ current_asset' = RSub(RMul(RAdd(current_asset, c), g), w)
        /\ IsYearEnd =>
            /\ month = 12
            /\ assets' = Append(assets, PyMax0(current_asset))
            /\ monthly_withdrawals'[Len(assets')] = w
        /\ (pc = "loop" /\ pc' = "month") =>
            /\ month' = 0
            /\ current_asset' = assets[Len(assets)]
            /\ prev_asset' = assets[Len(assets)]

\* C9: each of the 12 months of a year Y takes the balance b to
\* (b + c) * (1 + monthly_rate) - w, with c = monthly_investment if
\* Y <= end_investment_year else 0 and w = the year's monthly withdrawal
\* if Y >= start_withdrawal_year else 0; the floor max(0, .) is applied
\* once, to the value after the twelfth month.
C9_MonthOrder == [][C9Step]_vars

\* inside a year with both a contribution and a withdrawal, the running
\* balance is negative before the twelfth month
C9_Witness ==
    /\ pc = "month"
    /\ month \in 1..11
    /\ year <= params.end_investment_year
    /\ year >= params.start_withdrawal_year
    /\ Positive(params.monthly_investment)
    /\ Positive(monthly_withdrawal)
    /\ Negative(current_asset)

\* C10: a balance of 0 recorded for a year Y with no contribution in any
\* later year (Y >= end_investment_year or monthly_investment = 0) is
\* followed only by records of balance 0 and withdrawal 0; a record of
\* balance 0 is followed by a positive one only in a year that still has
\* contributions.
C10_DepletedStaysZero ==
    \A i \in Written :
        assets[i] = Zero =>
            /\ (\/ years[i] >= params.end_investment_year
                \/ params.monthly_investment = Zero) =>
                   \A j \in Written :
                       j > i => /\ assets[j] = Zero
                                /\ monthly_withdrawals[j] = Zero
            /\ (i + 1 \in Written /\ Positive(assets[i + 1])) =>
                   /\ years[i + 1] <= params.end_investment_year
                   /\ Positive(params.monthly_investment)

\* a series that starts at 0, is brought above 0 by contributions, is
\* depleted by withdrawals after the last contribution year and has a
\* later record
C10_Witness ==
    /\ pc = "done"
    /\ \E i \in Written :
           /\ i + 3 \in Written
           /\ assets[i] = Zero
           /\ Positive(assets[i + 1])
           /\ assets[i + 2] = Zero
           /\ years[i + 2] >= params.end_investment_year
           /\ assets[i + 3] = Zero

====
